---------------------------- MODULE Spec2Model ----------------------------
(***************************************************************************)
(* The crossword constraint-satisfaction solver of                         *)
(* "Problem set 3 - Optimisation/crossword/generate.py"                    *)
(* (class CrosswordCreator): node consistency, AC-3 and backtracking       *)
(* search over the domains of the crossword's variables.                   *)
(*                                                                         *)
(* Python's iteration order over a set or over the keys of a dict built    *)
(* from a set is not fixed by the language, so every such iteration is a   *)
(* nondeterministic choice of an order here.                               *)
(***************************************************************************)
EXTENDS Integers, Sequences, FiniteSets, TLC

--------------------------------------------------------------------------
(* Bounds of the model *)

\* the largest number of words in a word list
MaxWords == 3

\* the largest number of variables (slots) of a grid
MaxVars == 3

--------------------------------------------------------------------------
(* Words and grids the puzzles are drawn from *)

cat == <<"c", "a", "t">>
car == <<"c", "a", "r">>
dog == <<"d", "o", "g">>
tag == <<"t", "a", "g">>
god == <<"g", "o", "d">>
at  == <<"a", "t">>

WordUniverse == {cat, car, dog, tag, god, at}

WordLists == {ws \in SUBSET WordUniverse : Cardinality(ws) <= MaxWords}

\* a 3-letter ACROSS slot and a 3-letter DOWN slot crossing at offsets (1, 1)
CrossGrid ==
    [height |-> 3, width |-> 3,
     structure |-> {<<1, 0>>, <<1, 1>>, <<1, 2>>, <<0, 1>>, <<2, 1>>}]

\* three 3-letter slots in a chain: ACROSS - DOWN - ACROSS
ChainGrid ==
    [height |-> 3, width |-> 5,
     structure |-> {<<0, 0>>, <<0, 1>>, <<0, 2>>, <<1, 2>>, <<2, 2>>,
                    <<2, 3>>, <<2, 4>>}]

\* a 2-letter slot and a 3-letter slot that do not meet
ApartGrid ==
    [height |-> 3, width |-> 3,
     structure |-> {<<0, 0>>, <<0, 1>>, <<2, 0>>, <<2, 1>>, <<2, 2>>}]

\* four 3-letter slots in a chain: ACROSS - DOWN - ACROSS - DOWN
ZigzagGrid ==
    [height |-> 5, width |-> 5,
     structure |-> {<<0, 0>>, <<0, 1>>, <<0, 2>>, <<1, 2>>, <<2, 2>>,
                    <<2, 3>>, <<2, 4>>, <<3, 4>>, <<4, 4>>}]

--------------------------------------------------------------------------
(* Puzzle geometry: the Crossword and Variable classes *)

ACROSS == "across"
DOWN == "down"

\* Python's None, as the value of ac3_ret and of result.kind
None == "None"

\* a missing overlap entry: crossword.overlaps[x, y] is None
NoOverlap == <<>>

\* the cells of a variable, in word order
Cells(v) ==
    [k \in 1..v.length |->
        <<v.i + (IF v.direction = DOWN THEN k - 1 ELSE 0),
          v.j + (IF v.direction = ACROSS THEN k - 1 ELSE 0)>>]

CellSet(v) == {Cells(v)[k] : k \in 1..v.length}

\* the length of the run of open cells starting at (i, j) in a direction
RECURSIVE RunLength(_, _, _, _)
RunLength(g, i, j, direction) ==
    IF <<i, j>> \notin g.structure
    THEN 0
    ELSE 1 + (IF direction = DOWN
              THEN RunLength(g, i + 1, j, direction)
              ELSE RunLength(g, i, j + 1, direction))

\* every maximal run of at least two open cells, down a column or across a row
Variables(g) ==
    LET starts(i, j, direction) ==
            /\ <<i, j>> \in g.structure
            /\ IF direction = DOWN
               THEN <<i - 1, j>> \notin g.structure
               ELSE <<i, j - 1>> \notin g.structure
    IN  {[i |-> c[1], j |-> c[2], direction |-> d,
          length |-> RunLength(g, c[1], c[2], d)] :
            <<c, d>> \in {<<c, d>> \in g.structure \X {ACROSS, DOWN} :
                            /\ starts(c[1], c[2], d)
                            /\ RunLength(g, c[1], c[2], d) > 1}}

\* position of a cell in a variable's cells, 0-based as list.index
IndexOf(v, cell) == (CHOOSE k \in 1..v.length : Cells(v)[k] = cell) - 1

\* the entry Crossword.__init__ computes for overlaps[x, y]
CellOverlap(x, y) ==
    LET common == CellSet(x) \cap CellSet(y)
    IN  IF common = {}
        THEN NoOverlap
        ELSE LET cell == CHOOSE c \in common : TRUE
             IN  <<IndexOf(x, cell), IndexOf(y, cell)>>

\* the Crossword object: its variables, its overlaps (an entry for every
\* ordered pair of distinct variables) and its words
Crossword(g, words) ==
    [variables |-> Variables(g),
     overlaps |-> [p \in {q \in Variables(g) \X Variables(g) : q[1] # q[2]} |->
                     CellOverlap(p[1], p[2])],
     words |-> words]

Grids == {g \in {CrossGrid, ChainGrid, ApartGrid, ZigzagGrid} :
            Cardinality(Variables(g)) <= MaxVars}

--------------------------------------------------------------------------
(* Helpers *)

\* all the orders a set can be iterated in
Perms(S) ==
    {p \in [1..Cardinality(S) -> S] : \A e \in S : \E k \in DOMAIN p : p[k] = e}

\* word[k] for a 0-based k; "IndexError" where Python raises it
Char(word, k) == IF k + 1 \in DOMAIN word THEN word[k + 1] ELSE "IndexError"

--------------------------------------------------------------------------
(* The solver's state *)

VARIABLES
    crossword,    \* the Crossword object: [variables, overlaps, words]
    var_order,    \* the key order of the dict self.domains
    domains,      \* self.domains: variable -> set of candidate words
    pc,           \* where the computation stands
    arc_list,     \* ac3's worklist
    ac3_ret,      \* what ac3 returned: "True" or "False", None before it returns
    assignment,   \* the dict handed down the calls of backtrack
    stack,        \* the frames of backtrack that are in their for loop
    result,       \* what solve returned: [kind, value], kind "pending" before
    calls         \* the last two direct calls of revise, each with the
                  \* domains before and after it and the value it returned

vars == <<crossword, var_order, domains, pc, arc_list, ac3_ret, assignment,
          stack, result, calls>>

Vars == crossword.variables

\* crossword.overlaps[x, y]
Overlap(x, y) == crossword.overlaps[<<x, y>>]

\* crossword.neighbors(var)
Nbrs(var) == {v \in Vars : v # var /\ Overlap(v, var) # NoOverlap}

EmptyAssignment == [v \in {} |-> <<>>]

NoResult == [kind |-> "pending", value |-> EmptyAssignment]

\* CrosswordCreator.__init__: every variable starts with the whole word list
InitDomains(cw) == [var \in cw.variables |-> cw.words]

Init ==
    /\ \E g \in Grids, ws \in WordLists :
          /\ crossword = Crossword(g, ws)
          /\ var_order \in Perms(Variables(g))
          /\ domains = InitDomains(Crossword(g, ws))
    /\ pc = "solve"
    /\ arc_list = <<>>
    /\ ac3_ret = None
    /\ assignment = EmptyAssignment
    /\ stack = <<>>
    /\ result = NoResult
    /\ calls = <<>>

--------------------------------------------------------------------------
(* enforce_node_consistency *)

\* mutant: only the words that are too long are removed
NodeRemoveLonger(D, var) == {word \in D[var] : Len(word) > var.length}

\* mutant: only the words that are too short are removed
NodeRemoveShorter(D, var) == {word \in D[var] : Len(word) < var.length}

\* the words enforce_node_consistency removes from the domain of var
NodeRemoveWords(D, var) == {word \in D[var] : Len(word) # var.length}

NodeConsistentDomains(D) == [var \in DOMAIN D |-> D[var] \ NodeRemoveWords(D, var)]

\* solve() up to the call of ac3
EnforceNodeConsistency ==
    /\ pc = "solve"
    /\ domains' = NodeConsistentDomains(domains)
    /\ pc' = "ac3"
    /\ UNCHANGED <<crossword, var_order, arc_list, ac3_ret, assignment, stack,
                   result, calls>>

--------------------------------------------------------------------------
(* revise *)

\* mutant: the two offsets of the overlap are taken the wrong way round
ReviseRemoveSwapped(D, x, y) ==
    LET overlap == Overlap(x, y)
    IN  IF overlap = NoOverlap
        THEN {}
        ELSE {x_word \in D[x] :
                ~ \E y_word \in D[y] :
                    Char(x_word, overlap[2]) = Char(y_word, overlap[1])}

\* mutant: the loop over the domain of x stops at the first word it removes
ReviseRemoveFirst(D, x, y) ==
    LET overlap == Overlap(x, y)
        unsupported ==
            IF overlap = NoOverlap
            THEN {}
            ELSE {x_word \in D[x] :
                    ~ \E y_word \in D[y] :
                        Char(x_word, overlap[1]) = Char(y_word, overlap[2])}
    IN  IF unsupported = {} THEN {} ELSE {CHOOSE w \in unsupported : TRUE}

\* mutant: a pair without an overlap is treated as a pair nothing supports
ReviseRemoveUnconstrained(D, x, y) ==
    LET overlap == Overlap(x, y)
    IN  IF overlap = NoOverlap
        THEN D[x]
        ELSE {x_word \in D[x] :
                ~ \E y_word \in D[y] :
                    Char(x_word, overlap[1]) = Char(y_word, overlap[2])}

\* mutant: a word of x is not supported by the same word in the domain of y
ReviseRemoveUnlessOtherWord(D, x, y) ==
    LET overlap == Overlap(x, y)
    IN  IF overlap = NoOverlap
        THEN {}
        ELSE {x_word \in D[x] :
                ~ \E y_word \in D[y] \ {x_word} :
                    Char(x_word, overlap[1]) = Char(y_word, overlap[2])}

\* the words revise(x, y) removes from the domain of x
ReviseRemoveList(D, x, y) ==
    LET overlap == Overlap(x, y)
    IN  IF overlap = NoOverlap
        THEN {}
        ELSE {x_word \in D[x] :
                ~ \E y_word \in D[y] :
                    Char(x_word, overlap[1]) = Char(y_word, overlap[2])}

\* self.domains after revise(x, y)
ReviseDomains(D, x, y) == [D EXCEPT ![x] = @ \ ReviseRemoveList(D, x, y)]

\* mutant: changed is set for the words that are kept
ReviseChangedInverted(D, x, y) ==
    /\ Overlap(x, y) # NoOverlap
    /\ ReviseRemoveList(D, x, y) # D[x]

\* mutant: changed is set whenever the pair has an overlap
ReviseChangedAlways(D, x, y) == Overlap(x, y) # NoOverlap

\* the value revise(x, y) returns
ReviseChanged(D, x, y) ==
    /\ Overlap(x, y) # NoOverlap
    /\ ReviseRemoveList(D, x, y) # {}

\* revise(x, y) raises IndexError: a word is shorter than its overlap offset
ReviseFaults(D, x, y) ==
    /\ Overlap(x, y) # NoOverlap
    /\ \E x_word \in D[x], y_word \in D[y] :
          \/ Overlap(x, y)[1] >= Len(x_word)
          \/ Overlap(x, y)[2] >= Len(y_word)

--------------------------------------------------------------------------
(* ac3 *)

\* the arcs (x, var) for var in order, appended one after the other
ArcsFrom(x, order) == [k \in DOMAIN order |-> <<x, order[k]>>]

RECURSIVE Flatten(_)
Flatten(seqs) == IF seqs = <<>> THEN <<>> ELSE Head(seqs) \o Flatten(Tail(seqs))

\* the lists ac3 builds when arcs is None: for x in domains, for var in neighbors(x)
InitialArcLists ==
    {Flatten([k \in DOMAIN var_order |-> ArcsFrom(var_order[k], order[var_order[k]])]) :
        order \in {o \in [Vars -> UNION {Perms(Nbrs(v)) : v \in Vars}] :
                      \A v \in Vars : o[v] \in Perms(Nbrs(v))}}

Reverse(s) == [k \in DOMAIN s |-> s[Len(s) + 1 - k]]

\* the arcs ac3 puts at the front of its list after revise(x, y) changed the
\* domain of x: insert(0, (x, var)) for var in neighbors(x), var # y
ReEnqueued(x, y, order) == Reverse(ArcsFrom(x, order))

\* ac3 from its entry to the head of its while loop
Ac3Begin ==
    /\ pc = "ac3"
    /\ arc_list' \in InitialArcLists
    /\ pc' = "ac3_loop"
    /\ UNCHANGED <<crossword, var_order, domains, ac3_ret, assignment, stack,
                   result, calls>>

\* mutant: a domain with one word left already counts as empty
Ac3DomainNearlyEmpty(D, arc) == Cardinality(D[arc[1]]) <= 1

\* the test of line 173 on the domain of the arc's first variable
Ac3DomainEmpty(D, arc) == Cardinality(D[arc[1]]) = 0

\* one pass of ac3's while loop
Ac3Step ==
    /\ pc = "ac3_loop"
    /\ arc_list # <<>>
    /\ LET current_arc == Head(arc_list)
           x == current_arc[1]
           y == current_arc[2]
       IN  IF ReviseFaults(domains, x, y)
           THEN /\ pc' = "fault"
                /\ arc_list' = Tail(arc_list)
                /\ UNCHANGED <<domains, ac3_ret>>
           ELSE /\ domains' = ReviseDomains(domains, x, y)
                /\ IF ReviseChanged(domains, x, y)
                   THEN IF Ac3DomainEmpty(domains', current_arc)
                        THEN /\ ac3_ret' = "False"
                             /\ pc' = "backtrack"
                             /\ arc_list' = Tail(arc_list)
                        ELSE /\ \E order \in Perms(Nbrs(x) \ {y}) :
                                   arc_list' = ReEnqueued(x, y, order)
                                                 \o Tail(arc_list)
                             /\ UNCHANGED <<ac3_ret, pc>>
                   ELSE /\ arc_list' = Tail(arc_list)
                        /\ UNCHANGED <<ac3_ret, pc>>
    /\ UNCHANGED <<crossword, var_order, assignment, stack, result, calls>>

\* ac3's while loop ends with the list empty; solve() goes on to backtrack(dict())
Ac3End ==
    /\ pc = "ac3_loop"
    /\ arc_list = <<>>
    /\ ac3_ret' = "True"
    /\ pc' = "backtrack"
    /\ UNCHANGED <<crossword, var_order, domains, arc_list, assignment, stack,
                   result, calls>>

--------------------------------------------------------------------------
(* consistent, order_domain_values, select_unassigned_variable *)

\* mutant: the characters at the overlaps are not compared
ConsistentWithoutOverlaps(a) ==
    /\ \A v1, v2 \in DOMAIN a : v1 # v2 => a[v1] # a[v2]
    /\ \A var \in DOMAIN a : var.length = Len(a[var])

\* mutant: a word used twice is not looked for
ConsistentWithoutUniqueness(a) ==
    /\ \A var \in DOMAIN a : var.length = Len(a[var])
    /\ \A var \in DOMAIN a : \A neighbour \in Nbrs(var) \cap DOMAIN a :
          Char(a[var], Overlap(var, neighbour)[1])
            = Char(a[neighbour], Overlap(var, neighbour)[2])

\* consistent(assignment)
Consistent(a) ==
    /\ \A v1, v2 \in DOMAIN a : v1 # v2 => a[v1] # a[v2]
    /\ \A var \in DOMAIN a : var.length = Len(a[var])
    /\ \A var \in DOMAIN a : \A neighbour \in Nbrs(var) \cap DOMAIN a :
          Char(a[var], Overlap(var, neighbour)[1])
            = Char(a[neighbour], Overlap(var, neighbour)[2])

RECURSIVE SumOver(_, _)
SumOver(S, f) ==
    IF S = {}
    THEN 0
    ELSE LET e == CHOOSE e \in S : TRUE IN f[e] + SumOver(S \ {e}, f)

\* the counter order_domain_values keeps for word: the words of the domains of
\* var's neighbours outside the assignment that differ from it at the overlap
Conflicts(D, var, a, word) ==
    SumOver(Nbrs(var) \ DOMAIN a,
            [neighbour \in Nbrs(var) \ DOMAIN a |->
                Cardinality({neighbour_word \in D[neighbour] :
                    Char(word, Overlap(var, neighbour)[1])
                      # Char(neighbour_word, Overlap(var, neighbour)[2])})])

\* mutant: the word with the greatest counter is taken first
OrderMostConstrainingFirst(D, var, a) ==
    UNION {{ordered_domain \in Perms(D[var]) :
                \A k, l \in DOMAIN ordered_domain :
                    k < l => unordered_domain[ordered_domain[k]]
                               >= unordered_domain[ordered_domain[l]]} :
            unordered_domain \in {[word \in D[var] |-> Conflicts(D, var, a, word)]}}

\* the lists order_domain_values(var, assignment) can return: min() takes the
\* first of the words with the least counter in the dict's order, the
\* iteration order of the domain
OrderDomainValues(D, var, a) ==
    UNION {{ordered_domain \in Perms(D[var]) :
                \A k, l \in DOMAIN ordered_domain :
                    k < l => unordered_domain[ordered_domain[k]]
                               <= unordered_domain[ordered_domain[l]]} :
            unordered_domain \in {[word \in D[var] |-> Conflicts(D, var, a, word)]}}

\* mutant: the words are popped from the domain of var itself
DomainsAfterPoppingDomain(D, var) == [D EXCEPT ![var] = {}]

\* self.domains after order_domain_values(var, assignment): the counters are
\* kept in, and the words popped from, a dict of its own (unordered_domain)
DomainsAfterOrdering(D, var) == D

\* the first element of a sequence that is in S
FirstIn(order, S) ==
    order[CHOOSE k \in DOMAIN order :
            /\ order[k] \in S
            /\ \A l \in 1..(k - 1) : order[l] \notin S]

\* mutant: of the variables with the fewest words, the one with the fewest
\* neighbours is taken
SelectLowestDegree(D, a) ==
    LET unassigned_vars == DOMAIN D \ DOMAIN a
        min_vars == {v \in unassigned_vars :
                        \A u \in unassigned_vars :
                            Cardinality(D[v]) <= Cardinality(D[u])}
        var_options == {v \in min_vars :
                          \A u \in min_vars :
                              Cardinality(Nbrs(v)) <= Cardinality(Nbrs(u))}
    IN  FirstIn(var_order, var_options)

\* select_unassigned_variable(assignment): min() and max() take the first of
\* the tied variables in the key order of self.domains
SelectUnassignedVariable(D, a) ==
    LET unassigned_vars == DOMAIN D \ DOMAIN a
        min_vars == {v \in unassigned_vars :
                        \A u \in unassigned_vars :
                            Cardinality(D[v]) <= Cardinality(D[u])}
        var_options == {v \in min_vars :
                          \A u \in min_vars :
                              Cardinality(Nbrs(v)) >= Cardinality(Nbrs(u))}
    IN  FirstIn(var_order, var_options)

--------------------------------------------------------------------------
(* backtrack *)

\* assignment[var] = word
Assign(a, var, word) ==
    [v \in DOMAIN a \cup {var} |-> IF v = var THEN word ELSE a[v]]

\* mutant: the entry of var is left in the assignment
PopNothing(a, var) == a

\* assignment.pop(var)
Pop(a, var) == [v \in DOMAIN a \ {var} |-> a[v]]

\* assignment_complete / the test at the head of backtrack
AssignmentComplete(a) == Cardinality(DOMAIN a) = Cardinality(DOMAIN domains)

Top == stack[Len(stack)]

\* a call of backtrack, from its entry to the head of its for loop
BacktrackCall ==
    /\ pc = "backtrack"
    /\ IF AssignmentComplete(assignment)
       THEN \* the assignment is returned through every enclosing call
            /\ result' = [kind |-> "assignment", value |-> assignment]
            /\ stack' = <<>>
            /\ pc' = "done"
            /\ UNCHANGED domains
       ELSE /\ \E var \in {SelectUnassignedVariable(domains, assignment)} :
                  \E ordered \in OrderDomainValues(domains, var, assignment) :
                      /\ stack' = Append(stack, [var |-> var, values |-> ordered,
                                                 entry |-> assignment])
                      /\ domains' = DomainsAfterOrdering(domains, var)
            /\ pc' = "loop"
            /\ UNCHANGED result
    /\ UNCHANGED <<crossword, var_order, arc_list, ac3_ret, assignment, calls>>

\* one pass of backtrack's for loop, up to the recursive call or the continue
BacktrackTry ==
    /\ pc = "loop"
    /\ Top.values # <<>>
    /\ LET domain_word == Head(Top.values)
           tentative == Assign(assignment, Top.var, domain_word)
       IN  /\ stack' = [stack EXCEPT ![Len(stack)].values = Tail(@)]
           /\ IF Consistent(tentative)
              THEN /\ assignment' = tentative
                   /\ pc' = "backtrack"
              ELSE /\ assignment' = Pop(tentative, Top.var)
                   /\ pc' = "loop"
    /\ UNCHANGED <<crossword, var_order, domains, arc_list, ac3_ret, result,
                   calls>>

\* backtrack's for loop is over: return None, to solve() or to the calling
\* backtrack, which pops its own variable and goes on with its loop
BacktrackFail ==
    /\ pc = "loop"
    /\ Top.values = <<>>
    /\ stack' = SubSeq(stack, 1, Len(stack) - 1)
    /\ IF Len(stack) = 1
       THEN /\ result' = [kind |-> None, value |-> EmptyAssignment]
            /\ pc' = "done"
            /\ UNCHANGED assignment
       ELSE /\ assignment' = Pop(assignment, stack[Len(stack) - 1].var)
            /\ pc' = "loop"
            /\ UNCHANGED result
    /\ UNCHANGED <<crossword, var_order, domains, arc_list, ac3_ret, calls>>

--------------------------------------------------------------------------
(* solve() on a puzzle *)

Next ==
    \/ EnforceNodeConsistency
    \/ Ac3Begin
    \/ Ac3Step
    \/ Ac3End
    \/ BacktrackCall
    \/ BacktrackTry
    \/ BacktrackFail

Spec == Init /\ [][Next]_vars

\* solve() runs on: no step of it waits for anything
FairSpec == Spec /\ WF_vars(Next)

--------------------------------------------------------------------------
(* revise called directly, any number of times, on the node-consistent
   domains and on what earlier calls left of them *)

\* the key order of self.domains plays no part in revise: one order is enough
InitRevise ==
    /\ Init
    /\ var_order = CHOOSE order \in Perms(Vars) : TRUE

\* revise(x, y) for two distinct variables, overlapping or not
CallRevise ==
    /\ pc = "ac3"
    /\ \E x \in Vars, y \in Vars :
          /\ x # y
          /\ IF ReviseFaults(domains, x, y)
             THEN /\ pc' = "fault"
                  /\ UNCHANGED <<domains, calls>>
             ELSE /\ domains' = ReviseDomains(domains, x, y)
                  /\ calls' = (IF calls = <<>> THEN <<>> ELSE <<calls[Len(calls)]>>)
                                \o <<[x |-> x, y |-> y, before |-> domains,
                                      after |-> domains',
                                      ret |-> ReviseChanged(domains, x, y)]>>
                  /\ UNCHANGED pc
    /\ UNCHANGED <<crossword, var_order, arc_list, ac3_ret, assignment, stack,
                   result>>

NextRevise ==
    \/ EnforceNodeConsistency
    \/ CallRevise

SpecRevise == InitRevise /\ [][NextRevise]_vars

--------------------------------------------------------------------------
(* ac3 called with a list of arcs, twice on the same puzzle: the second call
   on a solver built anew from the same crossword *)

\* every ordered pair of neighbouring variables
AllArcs == {arc \in Vars \X Vars : arc[1] # arc[2] /\ arc[2] \in Nbrs(arc[1])}

\* ac3(arcs) for a list that holds every arc once, in any order
Ac3BeginWith ==
    /\ pc = "ac3"
    /\ arc_list' \in Perms(AllArcs)
    /\ pc' = "ac3_loop"
    /\ UNCHANGED <<crossword, var_order, domains, ac3_ret, assignment, stack,
                   result, calls>>

\* the first call has returned True: what it returned and the domains it left
\* are noted, and a new solver is built for the same crossword and made node
\* consistent
Ac3Again ==
    /\ pc = "backtrack"
    /\ ac3_ret = "True"
    /\ calls = <<>>
    /\ calls' = <<[before |-> NodeConsistentDomains(InitDomains(crossword)),
                   after |-> domains, ret |-> ac3_ret]>>
    /\ domains' = NodeConsistentDomains(InitDomains(crossword))
    /\ ac3_ret' = None
    /\ arc_list' = <<>>
    /\ pc' = "ac3"
    /\ UNCHANGED <<crossword, var_order, assignment, stack, result>>

NextAc3 ==
    \/ EnforceNodeConsistency
    \/ Ac3BeginWith
    \/ Ac3Step
    \/ Ac3End
    \/ Ac3Again

SpecAc3 == InitRevise /\ [][NextAc3]_vars

--------------------------------------------------------------------------
(* What the claims speak of *)

\* a is a complete, consistent assignment of the puzzle's words
IsSolution(a) ==
    /\ DOMAIN a = Vars
    /\ \A v \in Vars : a[v] \in crossword.words /\ Len(a[v]) = v.length
    /\ \A u, v \in Vars : u # v => a[u] # a[v]
    /\ \A u, v \in Vars :
          (u # v /\ Overlap(u, v) # NoOverlap)
            => a[u][Overlap(u, v)[1] + 1] = a[v][Overlap(u, v)[2] + 1]

Solutions == {a \in [Vars -> crossword.words] : IsSolution(a)}

\* the puzzle of the two crossing 3-letter slots
IsCross == crossword.variables = Variables(CrossGrid)

Returned == pc = "done"

--------------------------------------------------------------------------
(* C1 *)

\* C1: whenever solve() returns an assignment, it maps every variable of the
\* puzzle to a word of its length, uses no word twice, and the words of every
\* two neighbouring variables carry the same character at the overlap.
C1_ReturnedAssignmentIsSolution ==
    result.kind = "assignment" => IsSolution(result.value)

\* solve() returned an assignment of three crossing slots
C1_Witness ==
    /\ Returned
    /\ result.kind = "assignment"
    /\ Cardinality(Vars) = 3
    /\ \E v \in Vars : Nbrs(v) # {}

--------------------------------------------------------------------------
(* C2 *)

\* C2: when a complete consistent assignment exists, no step of node
\* consistency or ac3 takes a word of such an assignment out of its
\* variable's domain (the domains are looked at whenever no call of backtrack
\* is in its loop: before the search, and when solve() has returned), and
\* solve() returns an assignment, not None; for the
\* crossing slots with {cat, car} it returns one of the two pairings.
C2_SolvableIsSolved ==
    /\ stack = <<>> => \A a \in Solutions : \A v \in Vars : a[v] \in domains[v]
    /\ (Returned /\ Solutions # {}) => result.kind = "assignment"
    /\ (Returned /\ IsCross /\ crossword.words = {cat, car})
          => /\ result.kind = "assignment"
             /\ {result.value[v] : v \in Vars} = {cat, car}

\* solve() returned a pairing for the crossing slots with {cat, car}
C2_Witness ==
    /\ Returned
    /\ IsCross
    /\ crossword.words = {cat, car}
    /\ result.kind = "assignment"

--------------------------------------------------------------------------
(* C3 *)

\* an upper bound of the steps of a call of backtrack entered with d
\* variables assigned, each domain holding at most all the words
RECURSIVE CallBound(_)
CallBound(d) ==
    IF d >= Cardinality(Vars)
    THEN 1
    ELSE 2 + Cardinality(crossword.words) * (1 + CallBound(d + 1))

RECURSIVE FramesRank(_)
FramesRank(k) ==
    IF k = 0
    THEN 0
    ELSE 1 + Len(stack[k].values) * (1 + CallBound(k)) + FramesRank(k - 1)

\* the steps the search can still take
SearchRank ==
    FramesRank(Len(stack)) + (IF pc = "backtrack" THEN CallBound(Len(stack)) ELSE 0)

\* the passes ac3's loop can still take: a revise that changes a domain takes
\* a word away and adds fewer arcs than there are variables
Ac3Rank ==
    Len(arc_list)
      + Cardinality(Vars) * SumOver(Vars, [v \in Vars |-> Cardinality(domains[v])])

Ac3Bound ==
    Cardinality(Vars) * Cardinality(Vars)
      + Cardinality(Vars) * Cardinality(Vars) * Cardinality(crossword.words)

\* a natural number that every step of solve() makes smaller
Rank ==
    CASE pc \in {"done", "fault"} -> 0
      [] pc \in {"backtrack", "loop"} -> 1 + SearchRank
      [] pc = "ac3_loop" -> 2 + CallBound(0) + Ac3Rank
      [] pc = "ac3" -> 3 + CallBound(0) + Ac3Bound
      [] pc = "solve" -> 4 + CallBound(0) + Ac3Bound

\* C3: for a puzzle with no complete consistent assignment, solve() comes to
\* its end and returns None: it neither runs forever nor stops in a fault.
\* Every state short of the return has a next step, every step makes the
\* natural number Rank smaller, and what an unsolvable puzzle returns is None.
C3_UnsolvableReturnsNone ==
    /\ [](Returned \/ ENABLED Next)
    /\ [][Rank' < Rank]_vars
    /\ []((Returned /\ Solutions = {}) => result.kind = None)

\* solve() returned None after ac3 returned True with an empty domain left
C3_Witness ==
    /\ Returned
    /\ result.kind = None
    /\ ac3_ret = "True"
    /\ \E v \in Vars : domains[v] = {}

--------------------------------------------------------------------------
(* C4 *)

\* every word of every domain has a word to go with it in the domain of each
\* neighbour of its variable
ArcConsistent(D) ==
    \A x \in Vars : \A y \in Nbrs(x) : \A w \in D[x] :
        \E w2 \in D[y] : w[Overlap(x, y)[1] + 1] = w2[Overlap(x, y)[2] + 1]

\* C4: after ac3, called with the default arcs, returns True, the domains
\* are arc-consistent: every word left in domain[x] has, for each neighbour
\* y of x, a word left in domain[y] with the same character at the overlap.
C4_Ac3TrueIsArcConsistent ==
    ac3_ret = "True" => ArcConsistent(domains)

--------------------------------------------------------------------------
(* C5 *)

\* C5: whenever ac3 returns False, some variable's domain is empty.
C5_Ac3FalseHasEmptyDomain ==
    ac3_ret = "False" => \E v \in Vars : domains[v] = {}

\* ac3 returned False after it had revised a domain without emptying it
C5_Witness ==
    /\ ac3_ret = "False"
    /\ \E v \in Vars : domains[v] # {} /\ domains[v] # NodeConsistentDomains(InitDomains(crossword))[v]

--------------------------------------------------------------------------
(* C6 *)

\* C6: whenever ac3 returns True, no variable's domain is empty.
C6_Ac3TrueHasNoEmptyDomain ==
    ac3_ret = "True" => \A v \in Vars : domains[v] # {}

--------------------------------------------------------------------------
(* C7 *)

\* C7: after enforce_node_consistency the domain of every variable is
\* exactly the words of its previous domain (the word list) that have the
\* variable's length.
C7_NodeConsistencyKeepsExactlyFittingWords ==
    pc = "ac3" =>
        \A v \in Vars : domains[v] = {w \in crossword.words : Len(w) = v.length}

\* node consistency removed some words of a domain and kept others
C7_Witness ==
    /\ pc = "ac3"
    /\ \E v \in Vars : domains[v] # {} /\ domains[v] # crossword.words
    /\ \E v \in Vars : \E w \in crossword.words : Len(w) > v.length

--------------------------------------------------------------------------
(* C8 *)

\* C8: for neighbouring x and y with overlap (i, j), revise(x, y) leaves in
\* domain[x] exactly the words w of the old domain[x] for which some w2 of
\* domain[y] has w[i] = w2[j], leaves every other domain as it was, and
\* returns True exactly when it removed a word.
C8_ReviseKeepsExactlySupportedWords ==
    \A k \in DOMAIN calls :
        LET c == calls[k]
            overlap == Overlap(c.x, c.y)
        IN  overlap # NoOverlap =>
                /\ c.after[c.x] =
                      {w \in c.before[c.x] :
                          \E w2 \in c.before[c.y] :
                              w[overlap[1] + 1] = w2[overlap[2] + 1]}
                /\ \A v \in Vars \ {c.x} : c.after[v] = c.before[v]
                /\ c.ret = (c.after[c.x] # c.before[c.x])

\* a revise of two neighbours removed some words of domain[x] and kept others
C8_Witness ==
    \E k \in DOMAIN calls :
        /\ Overlap(calls[k].x, calls[k].y) # NoOverlap
        /\ calls[k].ret
        /\ calls[k].after[calls[k].x] # {}

--------------------------------------------------------------------------
(* C9 *)

\* C9: revise(x, y) called again right after revise(x, y), with nothing done
\* to the domains in between, returns False and changes no domain.
C9_ReviseIsIdempotent ==
    (/\ Len(calls) = 2
     /\ calls[1].x = calls[2].x
     /\ calls[1].y = calls[2].y)
        => /\ calls[2].ret = FALSE
           /\ calls[2].after = calls[2].before

\* revise(x, y) was called twice in a row and the first call removed words
C9_Witness ==
    /\ Len(calls) = 2
    /\ calls[1].x = calls[2].x
    /\ calls[1].y = calls[2].y
    /\ calls[1].ret
    /\ calls[2].before = calls[1].after

--------------------------------------------------------------------------
(* C10 *)

\* C10: for x and y without an overlap entry, revise(x, y) returns False and
\* leaves every domain as it was, whatever the two domains hold.
C10_ReviseWithoutOverlapIsNoOp ==
    \A k \in DOMAIN calls :
        Overlap(calls[k].x, calls[k].y) = NoOverlap
            => /\ calls[k].ret = FALSE
               /\ calls[k].after = calls[k].before

\* revise was called for two variables that do not meet, the domain of y
\* empty and the domain of x not
C10_Witness ==
    \E k \in DOMAIN calls :
        /\ Overlap(calls[k].x, calls[k].y) = NoOverlap
        /\ calls[k].before[calls[k].y] = {}
        /\ calls[k].before[calls[k].x] # {}

--------------------------------------------------------------------------
(* C11 *)

\* C11: once ac3 has returned False, backtrack is not invoked: no call of
\* backtrack is ever in its loop, and what solve() returns is failure.
C11_NoSearchAfterFailedAc3 ==
    ac3_ret = "False" => /\ stack = <<>>
                         /\ pc # "loop"
                         /\ Returned => result.kind = None

--------------------------------------------------------------------------
(* C12 *)

\* the crossing slots with the word list {cat, dog}, ac3 over
IsCatDog == IsCross /\ crossword.words = {cat, dog} /\ ac3_ret # None

\* C12 as stated: for the crossing slots with {cat, dog}, node consistency
\* and ac3 empty a domain and ac3 returns False.
C12_CatDogAc3ReturnsFalse ==
    IsCatDog => /\ ac3_ret = "False"
                /\ \E v \in Vars : domains[v] = {}

\* C12 amended: for the crossing slots with {cat, dog}, node consistency and
\* ac3 remove no word (each word of one slot has itself in the other slot's
\* domain to agree with at the overlap) and ac3 returns True; that the puzzle
\* has no solution is found by the search, and solve() returns None.
C12_CatDogIsRefutedBySearch ==
    IsCatDog => /\ ac3_ret = "True"
                /\ \A v \in Vars : domains[v] = {cat, dog}
                /\ Returned => result.kind = None

\* solve() returned for the crossing slots with {cat, dog}, after a search
\* that tried words
C12_Witness ==
    /\ IsCatDog
    /\ Returned
    /\ result.kind = None
    /\ ac3_ret = "True"

--------------------------------------------------------------------------
(* C13 *)

\* C13: two calls of ac3 on the same starting domains, each with a list of
\* all the arcs in an order of its own, that both return True leave the same
\* domain for every variable.
C13_Ac3ResultIsOrderIndependent ==
    (/\ Len(calls) = 1
     /\ calls[1].ret = "True"
     /\ ac3_ret = "True")
        => \A v \in Vars : domains[v] = calls[1].after[v]

--------------------------------------------------------------------------
(* C14 *)

\* the elements of a sequence
Range(s) == {s[k] : k \in DOMAIN s}

\* C14: whenever a pass of ac3's loop over an arc (x, y) has revise(x, y)
\* change domain[x] without emptying it, the worklist after the pass holds
\* the arc (z, x) for every neighbour z of x other than y.
C14_NeighboursAreReEnqueued ==
    [][(/\ pc = "ac3_loop"
        /\ arc_list # <<>>
        /\ ~ ReviseFaults(domains, Head(arc_list)[1], Head(arc_list)[2])
        /\ domains'[Head(arc_list)[1]] # domains[Head(arc_list)[1]]
        /\ domains'[Head(arc_list)[1]] # {})
          => \A z \in Nbrs(Head(arc_list)[1]) \ {Head(arc_list)[2]} :
                <<z, Head(arc_list)[1]>> \in Range(arc_list')]_vars

--------------------------------------------------------------------------
(* C15 *)

\* C15: the variable a call of backtrack got from select_unassigned_variable
\* for the assignment it was entered with is not in that assignment, no
\* variable outside the assignment has a smaller domain, and none of those
\* with a domain of the same size has more neighbours.
C15_SelectsFewestWordsThenMostNeighbours ==
    \A k \in DOMAIN stack :
        LET v == stack[k].var
            unassigned == Vars \ DOMAIN stack[k].entry
        IN  /\ v \in unassigned
            /\ \A u \in unassigned :
                  /\ Cardinality(domains[v]) <= Cardinality(domains[u])
                  /\ Cardinality(domains[u]) = Cardinality(domains[v])
                        => Cardinality(Nbrs(u)) <= Cardinality(Nbrs(v))

\* a variable was selected with the domains of the unassigned variables of
\* different sizes, and one with those of the same size and the unassigned
\* variables of different neighbour counts
C15_Witness ==
    /\ pc = "loop"
    /\ \E k \in DOMAIN stack : \E u \in Vars \ DOMAIN stack[k].entry :
          Cardinality(domains[u]) > Cardinality(domains[stack[k].var])
    /\ \E k \in DOMAIN stack : \E u \in Vars \ DOMAIN stack[k].entry :
          /\ Cardinality(domains[u]) = Cardinality(domains[stack[k].var])
          /\ Cardinality(Nbrs(u)) < Cardinality(Nbrs(stack[k].var))

--------------------------------------------------------------------------
(* C16 *)

\* the cost of word w for var under the assignment a: over the neighbours of
\* var outside a, the words of the neighbour's domain that differ from w at
\* the overlap
Cost(var, a, w) ==
    LET open == {n \in Nbrs(var) : n \notin DOMAIN a}
    IN  SumOver(open,
                [n \in open |->
                    Cardinality({w2 \in domains[n] :
                        w2[Overlap(var, n)[2] + 1] # w[Overlap(var, n)[1] + 1]})])

\* C16: the list a call of backtrack gets from order_domain_values(var,
\* assignment) holds every word of domain[var] once and nothing else, and no
\* word comes before a word of smaller cost.
C16_ValuesAreOrderedByCost ==
    [][(pc = "backtrack" /\ pc' = "loop")
          => LET frame == stack'[Len(stack')]
                 ordered == frame.values
             IN  /\ Len(ordered) = Cardinality(domains[frame.var])
                 /\ Range(ordered) = domains[frame.var]
                 /\ \A k, l \in DOMAIN ordered :
                       k < l => Cost(frame.var, frame.entry, ordered[k])
                                  <= Cost(frame.var, frame.entry, ordered[l])]_vars

\* order_domain_values has just returned the list for a variable with a
\* neighbour in the assignment whose domain holds a word that differs from a
\* word of the list at the overlap, and an enclosing call got a list of words
\* of different costs
C16_Witness ==
    /\ pc = "loop"
    /\ Len(Top.values) = Cardinality(domains[Top.var])
    /\ \E n \in Nbrs(Top.var) \cap DOMAIN Top.entry :
          \E w \in Range(Top.values), w2 \in domains[n] :
              w2[Overlap(Top.var, n)[2] + 1] # w[Overlap(Top.var, n)[1] + 1]
    /\ \E k \in DOMAIN stack : \E w1, w2 \in domains[stack[k].var] :
          Cost(stack[k].var, stack[k].entry, w1)
            < Cost(stack[k].var, stack[k].entry, w2)

--------------------------------------------------------------------------
(* C17 *)

\* C17: from the first call of backtrack until solve() returns, no step
\* changes the domain of any variable, and no step goes back into ac3: its
\* worklist and its return value stay as they were when it finished.
C17_DomainsAreReadOnlyDuringSearch ==
    [][(pc = "backtrack" \/ pc = "loop")
          => (/\ domains' = domains
              /\ arc_list' = arc_list
              /\ ac3_ret' = ac3_ret
              /\ (pc' = "backtrack" \/ pc' = "loop" \/ pc' = "done"))]_vars

\* solve() returned None after a search that assigned and took back words of
\* domains that hold more than one word
C17_Witness ==
    /\ Returned
    /\ result.kind = None
    /\ \A v \in Vars : Cardinality(domains[v]) > 1
    /\ \E v \in Vars : Nbrs(v) # {}

--------------------------------------------------------------------------
(* C18 *)

\* the variable whose domain the pass over the head of the worklist revises
RevisedVar == Head(arc_list)[1]

\* C18: ac3 comes to an end from any order of its worklist. A pass of its
\* loop can always be taken until it returns, and each pass makes the natural
\* number Ac3Rank smaller; the worklist does not shrink only in a pass whose
\* revise took words out of a domain; a pass that empties a domain returns
\* False at once, leaving the rest of the worklist as it is, False is
\* returned in no other way, and True is returned with the worklist empty.
C18_Ac3Terminates ==
    /\ [](pc = "ac3_loop" => ENABLED (Ac3Step \/ Ac3End))
    /\ [](pc # "fault")
    /\ [][(pc = "ac3_loop" /\ pc' = "ac3_loop") => Ac3Rank' < Ac3Rank]_vars
    /\ [][(pc = "ac3_loop" /\ arc_list # <<>>
                            /\ Len(arc_list') >= Len(arc_list))
            => (/\ domains'[RevisedVar] # domains[RevisedVar]
                /\ domains'[RevisedVar] \subseteq domains[RevisedVar])]_vars
    /\ [][(pc = "ac3_loop" /\ arc_list # <<>>)
            => (/\ (domains'[RevisedVar] = {} /\ domains[RevisedVar] # {})
                      <=> ac3_ret' = "False"
                /\ ac3_ret' = "False" => (arc_list' = Tail(arc_list)
                                            /\ pc' # "ac3_loop"))]_vars
    /\ [][(pc = "ac3_loop" /\ ac3_ret' = "True") => arc_list = <<>>]_vars

\* ac3 returned False with arcs left on its worklist, after a pass that took
\* words out of a domain without emptying it
C18_Witness ==
    /\ ac3_ret = "False"
    /\ arc_list # <<>>
    /\ \E v \in Vars :
          /\ domains[v] # {}
          /\ domains[v] # NodeConsistentDomains(InitDomains(crossword))[v]

--------------------------------------------------------------------------
(* C19 *)

\* the mapping a holds every entry of the mapping b, with the same word
Extends(a, b) ==
    /\ DOMAIN b \subseteq DOMAIN a
    /\ \A v \in DOMAIN b : a[v] = b[v]

\* C19: whenever a call of backtrack is at the head of its loop, and so
\* when it leaves the loop to return None, the assignment is the mapping the
\* call was entered with; and the assignment that is returned through the
\* enclosing calls extends the mapping each of them was entered with.
C19_BacktrackUndoesItsChoices ==
    /\ [](pc = "loop" => assignment = Top.entry)
    /\ [][(pc = "backtrack" /\ result'.kind = "assignment")
            => \A k \in DOMAIN stack : Extends(result'.value, stack[k].entry)]_vars

\* a call of backtrack below the first, with variables left to assign after
\* its own, has gone through a domain of several words and is about to
\* return None
C19_Witness ==
    /\ pc = "loop"
    /\ Len(stack) > 1
    /\ Top.values = <<>>
    /\ Cardinality(domains[Top.var]) > 1
    /\ Cardinality(Vars) > Len(stack)

--------------------------------------------------------------------------
(* C20 *)

\* no word twice, every word of its variable's length, and the words of two
\* assigned neighbours the same at their overlap
IsConsistentPartial(a) ==
    /\ DOMAIN a \subseteq Vars
    /\ \A u, v \in DOMAIN a : u # v => a[u] # a[v]
    /\ \A v \in DOMAIN a : Len(a[v]) = v.length
    /\ \A u, v \in DOMAIN a :
          (u # v /\ Overlap(u, v) # NoOverlap)
            => a[u][Overlap(u, v)[1] + 1] = a[v][Overlap(u, v)[2] + 1]

\* C20: at the entry of every call of backtrack the assignment is
\* consistent and holds one entry for each enclosing call, the entry of the
\* variable that call selected; at all times the number of calls of backtrack
\* that enclose another (the depth of the recursion) and the number of
\* entries of the assignment are at most the number of variables.
C20_BacktrackEntryInvariant ==
    /\ pc = "backtrack"
          => /\ IsConsistentPartial(assignment)
             /\ Cardinality(DOMAIN assignment) = Len(stack)
             /\ DOMAIN assignment = {stack[k].var : k \in DOMAIN stack}
    /\ Len(stack) <= Cardinality(Vars)
    /\ Cardinality(DOMAIN assignment) <= Cardinality(Vars)

\* backtrack is entered below two enclosing calls, with an assignment of two
\* neighbours and a variable left to assign
C20_Witness ==
    /\ pc = "backtrack"
    /\ Len(stack) = 2
    /\ Cardinality(Vars) > 2
    /\ \E u, v \in DOMAIN assignment : u # v /\ Overlap(u, v) # NoOverlap

=============================================================================
